---------------------------- MODULE Spec2Model ----------------------------
(***************************************************************************)
(* A model of the speech2text scripts: video_to_audio.py (Converter),      *)
(* cut_audio.py (Chunker), transcribe_audio.py (Transcriber and the        *)
(* subtitle time formatters) and process_media.py (Orchestrator).          *)
(*                                                                         *)
(* Text (file names, rendered timestamps) is a sequence of one-character   *)
(* strings, so that suffix matching, ordering and zero padding are         *)
(* computed character by character as Python computes them.                *)
(***************************************************************************)
EXTENDS Integers, Sequences, FiniteSets, TLC

(***************************************************************************)
(* Bounds of the model.                                                    *)
(***************************************************************************)
\* total durations go up to (MaxQ + 1) minutes
MaxQ == 3
\* chunk durations (minutes) are 1..MaxT
MaxT == 2
\* at most MaxInitFiles files are in the chunk directory before the run
MaxInitFiles == 2
\* part files an earlier run may have left: part_001 .. part_<MaxStale>
MaxStale == 2
\* the largest hour count of the segment times formatted
MaxHours == 100

(***************************************************************************)
(* Characters and text.                                                    *)
(***************************************************************************)
Min(a, b) == IF a <= b THEN a ELSE b

\* Unicode code points of the characters the model uses (Python compares
\* str by code point).
CodePoint ==
    ("." :> 46) @@ ("0" :> 48) @@ ("1" :> 49) @@ ("2" :> 50) @@ ("3" :> 51)
    @@ ("4" :> 52) @@ ("5" :> 53) @@ ("6" :> 54) @@ ("7" :> 55) @@ ("8" :> 56)
    @@ ("9" :> 57) @@ ("C" :> 67) @@ ("M" :> 77) @@ ("P" :> 80) @@ ("_" :> 95)
    @@ ("a" :> 97) @@ ("b" :> 98) @@ ("c" :> 99) @@ ("f" :> 102) @@ ("l" :> 108)
    @@ ("m" :> 109) @@ ("n" :> 110) @@ ("p" :> 112) @@ ("r" :> 114)
    @@ ("t" :> 116) @@ ("v" :> 118) @@ ("w" :> 119) @@ ("x" :> 120)
    @@ ("4" :> 52)

DigitChar == <<"0", "1", "2", "3", "4", "5", "6", "7", "8", "9">>

\* str(n) for n >= 0: the decimal digits, most significant first.
RECURSIVE Digits(_)
Digits(n) ==
    IF n < 10 THEN <<DigitChar[n + 1]>>
    ELSE Digits(n \div 10) \o <<DigitChar[(n % 10) + 1]>>

\* The "0w" format fill: pad on the left with "0" up to width w; a text
\* already w long or longer is left as it is.
RECURSIVE ZeroPad(_, _)
ZeroPad(s, w) == IF Len(s) >= w THEN s ELSE ZeroPad(<<"0">> \o s, w)

\* The characters of an audio format name.
FormatChars(fmt) ==
    CASE fmt = "mp3" -> <<"m", "p", "3">>
      [] fmt = "wav" -> <<"w", "a", "v">>
      [] fmt = "aac" -> <<"a", "a", "c">>
      [] fmt = "flac" -> <<"f", "l", "a", "c">>
      [] fmt = "m4a" -> <<"m", "4", "a">>
      [] fmt = "txt" -> <<"t", "x", "t">>
      [] fmt = "json" -> <<"j", "s", "o", "n">>
      [] fmt = "srt" -> <<"s", "r", "t">>
      [] fmt = "vtt" -> <<"v", "t", "t">>

\* f"part_{i+1:03d}.{output_format}" for the 1-based number n = i + 1
ChunkFilename(n, fmt) ==
    <<"p", "a", "r", "t", "_">> \o ZeroPad(Digits(n), 3) \o <<".">> \o FormatChars(fmt)


\* Whether text s ends with text suf.
EndsWith(s, suf) ==
    /\ Len(s) >= Len(suf)
    /\ SubSeq(s, Len(s) - Len(suf) + 1, Len(s)) = suf

\* Position of the last "." of a name, 0 when there is none.
LastDot(s) ==
    IF \E k \in 1..Len(s) : s[k] = "."
    THEN CHOOSE k \in 1..Len(s) : s[k] = "." /\ \A j \in (k + 1)..Len(s) : s[j] # "."
    ELSE 0

\* pathlib's Path.stem: the name without its last suffix (a leading dot is
\* no suffix).
Stem(s) == IF LastDot(s) > 1 THEN SubSeq(s, 1, LastDot(s) - 1) ELSE s

(***************************************************************************)
(* State.  Each script runs as one process; the record of a process holds  *)
(* its position (pc), its arguments and its locals.  The disk outlives the *)
(* processes.                                                              *)
(***************************************************************************)
VARIABLES
    prog,       \* the script the user launched, "none" before the launch
    dir,        \* disk: names of the files in the chunk directory
    out_file,   \* disk: the Converter's output file: "absent", "old", "new"
    conv,       \* the video_to_audio.py process
    cut,        \* the cut_audio.py process
    trn,        \* the transcribe_audio.py process
    pipe,       \* the process_media.py process
    seconds,    \* the segment time given to the time formatters
    rendered    \* what the time formatters returned

vars == <<prog, dir, out_file, conv, cut, trn, pipe, seconds, rendered>>

\* An optional command-line argument: {} when omitted, {value} when given;
\* argparse fills in the default of an omitted one.
Optional(S) == {{}} \cup {{x} : x \in S}
ArgOr(given, default) == IF given = {} THEN default ELSE CHOOSE x \in given : TRUE
NoExit == "<running>"

\* --audio-format / -f choices of cut_audio.py that the model runs with
AudioFormats == {"mp3", "wav"}

\* A path: the directory it is in and its name.
PathOf(parent, name) == [parent |-> parent, name |-> name]

\* The input file of the examples: work/v.mp4
InputName == <<"v", ".", "m", "p", "4">>
InputPath == PathOf("work", InputName)

(***************************************************************************)
(* Chunker: cut_audio.py                                                   *)
(***************************************************************************)
CutIdle ==
    [pc |-> "idle", input_file |-> InputPath, chunk_duration |-> 0,
     output_format |-> "mp3", error |-> "", total_duration_ms |-> 0,
     chunk_duration_ms |-> 0, num_chunks |-> 0, i |-> 0, chunks |-> <<>>,
     successful_chunks |-> 0, success |-> FALSE, exit |-> NoExit]

\* The process as main() enters cut_audio_file with the parsed arguments
\* (-d defaults to 10 and -f to "mp3").
CutProcess(input_file, duration, format) ==
    [CutIdle EXCEPT !.pc = "start", !.input_file = input_file,
                    !.chunk_duration = ArgOr(duration, 10),
                    !.output_format = ArgOr(format, "mp3")]

\* Total durations (ms) of the audio a run may load: around every multiple
\* of a minute up to MaxQ minutes.
DurationSet == {q * 60000 + r : q \in 0..MaxQ, r \in {0, 1, 30000, 59999}}

\* math.ceil(a / b) for a >= 0, b > 0 (the float quotient is exact enough at
\* these magnitudes for ceil to be the integer ceiling).
CeilDiv(a, b) == IF a % b = 0 THEN a \div b ELSE (a \div b) + 1

\* start of the chunk of loop index i (0-based), line 79
ChunkStart(i, chunk_duration_ms) == i * chunk_duration_ms

\* A faulty end: the end of the chunk without the clamp to the total.
ChunkEndUnclamped(i, chunk_duration_ms, total_duration_ms) ==
    (i + 1) * chunk_duration_ms

\* end of the chunk of loop index i, line 80
ChunkEnd(i, chunk_duration_ms, total_duration_ms) ==
    Min((i + 1) * chunk_duration_ms, total_duration_ms)

\* A faulty test: success as soon as one chunk was written.
CutSuccessSome(successful_chunks, num_chunks) == successful_chunks >= 1

\* the test of line 97
CutSuccess(successful_chunks, num_chunks) == successful_chunks = num_chunks

\* cut_audio_file up to the loop: the input check, mkdir, the load and the
\* chunk parameters.  The three early returns are the environment's choice.
CutStart ==
    /\ cut.pc = "start"
    /\ \/ \E e \in {"input_missing", "mkdir_error", "load_error"} :
            cut' = [cut EXCEPT !.pc = "done", !.error = e, !.success = FALSE,
                               !.exit = 1]
       \/ \E D \in DurationSet :
            cut' = [cut EXCEPT
                      !.pc = "loop",
                      !.chunk_duration_ms = cut.chunk_duration * 60 * 1000,
                      !.total_duration_ms = D,
                      !.num_chunks = CeilDiv(D, cut.chunk_duration * 60 * 1000),
                      !.successful_chunks = 0,
                      !.i = 0]
    /\ UNCHANGED <<prog, dir, out_file, conv, trn, pipe, seconds, rendered>>

\* One iteration of the loop: slice, name and export chunk i.  An export
\* that raises may already have created the file.
CutChunk ==
    /\ cut.pc = "loop"
    /\ cut.i < cut.num_chunks
    /\ LET start == ChunkStart(cut.i, cut.chunk_duration_ms)
           end == ChunkEnd(cut.i, cut.chunk_duration_ms, cut.total_duration_ms)
           chunk_filename == ChunkFilename(cut.i + 1, cut.output_format)
       IN  \E ok \in BOOLEAN, partial \in BOOLEAN :
             /\ ok => ~partial
             /\ cut' = [cut EXCEPT
                          !.chunks = Append(@, [index |-> cut.i + 1, start |-> start,
                                                end |-> end, name |-> chunk_filename,
                                                ok |-> ok]),
                          !.successful_chunks = IF ok THEN @ + 1 ELSE @,
                          !.i = @ + 1]
             /\ dir' = IF ok \/ partial THEN dir \cup {chunk_filename} ELSE dir
    /\ UNCHANGED <<prog, out_file, conv, trn, pipe, seconds, rendered>>

\* After the loop: lines 97-102 and main's sys.exit.
CutReturn ==
    /\ cut.pc = "loop"
    /\ cut.i >= cut.num_chunks
    /\ cut' = [cut EXCEPT
                 !.pc = "done",
                 !.success = CutSuccess(cut.successful_chunks, cut.num_chunks),
                 !.exit = IF CutSuccess(cut.successful_chunks, cut.num_chunks)
                          THEN 0 ELSE 1]
    /\ UNCHANGED <<prog, dir, out_file, conv, trn, pipe, seconds, rendered>>

(***************************************************************************)
(* Transcriber: transcribe_audio.py                                        *)
(***************************************************************************)
\* The chunk directory of the runs, <output_dir>/<stem>_chunks (lines 109)
ChunksDirName == Stem(InputName) \o <<"_", "c", "h", "u", "n", "k", "s">>

\* Names of files a directory may hold before a run, besides part files.
OtherNames ==
    { <<"b", ".", "m", "p", "3">>, <<"a", ".", "w", "a", "v">>,
      <<"C", ".", "M", "P", "3">>, <<"n", ".", "t", "x", "t">> }

\* Part files of an earlier Chunker run.
StaleNames == {ChunkFilename(n, "mp3") : n \in 1..MaxStale}

\* The directory contents a run may start from.
InitialDirs(names) == {S \in SUBSET names : Cardinality(S) <= MaxInitFiles}

\* audio_extensions, line 35: the patterns are "*." followed by these
audio_extensions == <<"mp3", "wav", "m4a", "flac", "aac">>

\* Python's str "<": lexicographic order by code point, a proper prefix first.
RECURSIVE StrLess(_, _)
StrLess(a, b) ==
    IF b = <<>> THEN FALSE
    ELSE IF a = <<>> THEN TRUE
    ELSE IF CodePoint[Head(a)] # CodePoint[Head(b)]
         THEN CodePoint[Head(a)] < CodePoint[Head(b)]
         ELSE StrLess(Tail(a), Tail(b))

\* Path.glob("*." + ext) on a POSIX build: the names of the listing that
\* end with "." + ext, compared case-sensitively.
GlobMatches(listing, ext) ==
    {n \in listing : EndsWith(n, <<".">> \o FormatChars(ext))}

\* The orders in which a set of names may be enumerated.
Orders(S) ==
    {q \in [1..Cardinality(S) -> S] : \A x \in S : \E k \in 1..Cardinality(S) : q[k] = x}

\* list.sort() of paths of one directory: their names in ascending order
\* (insertion into the sorted prefix, element by element).
RECURSIVE InsertSorted(_, _)
InsertSorted(x, q) ==
    IF q = <<>> THEN <<x>>
    ELSE IF StrLess(x, Head(q)) THEN <<x>> \o q
    ELSE <<Head(q)>> \o InsertSorted(x, Tail(q))

\* A faulty sort: the list is left in the order the globs gave.
SortFilesSkipped(q) == q

RECURSIVE SortFiles(_)
SortFiles(q) ==
    IF q = <<>> THEN <<>> ELSE InsertSorted(q[Len(q)], SortFiles(SubSeq(q, 1, Len(q) - 1)))

\* -f choices of transcribe_audio.py, line 179
TranscriptFormats == {"txt", "json", "srt", "vtt"}

\* f"{base_name}.{output_format}", lines 89-101
TranscriptName(audio_file, format) == Stem(audio_file) \o <<".">> \o FormatChars(format)

\* Faulty options: the language is passed whatever it is.
TranscribeOptionsAlways(language) == {<<"language", language>>}

\* transcribe_options, lines 82-84: a dict as a set of <<key, value>>
TranscribeOptions(language) ==
    IF language # "auto" THEN {<<"language", language>>} ELSE {}

TrnIdle ==
    [pc |-> "idle", input_path |-> InputPath, language |-> "auto",
     output_format |-> "txt", kind |-> "", error |-> "", globbed_in_order |-> TRUE,
     audio_files |-> <<>>, idx |-> 0, calls |-> <<>>,
     successful_transcriptions |-> 0, written |-> {}, success |-> FALSE,
     exit |-> NoExit]

\* The process as main() enters transcribe_audio_files with the parsed
\* arguments (-l defaults to "auto" and -f to "txt").
TrnProcess(input_path, language, format) ==
    [TrnIdle EXCEPT !.pc = "start", !.input_path = input_path,
                    !.language = ArgOr(language, "auto"),
                    !.output_format = ArgOr(format, "txt")]

\* What kinds of thing a path may be on the disk: the chunk directory is a
\* directory, anything else is a file or is missing.
PathKinds(p) == IF p.name = ChunksDirName THEN {"dir"} ELSE {"file", "missing"}

\* transcribe_audio_files up to the loop, lines 25-73: the files are
\* resolved (one glob per extension, each in the order the file system
\* enumerates), the list is sorted, the output directory is made and the
\* model loaded.
TrnStart ==
    /\ trn.pc = "start"
    /\ \E kind \in PathKinds(trn.input_path) :
         \/ /\ kind = "missing"
            /\ trn' = [trn EXCEPT !.pc = "done", !.kind = kind,
                                  !.error = "input_missing", !.exit = 1]
         \/ /\ kind # "missing"
            /\ \E g1 \in Orders(GlobMatches(dir, audio_extensions[1])),
                  g2 \in Orders(GlobMatches(dir, audio_extensions[2])),
                  g3 \in Orders(GlobMatches(dir, audio_extensions[3])),
                  g4 \in Orders(GlobMatches(dir, audio_extensions[4])),
                  g5 \in Orders(GlobMatches(dir, audio_extensions[5])),
                  env \in {"ok", "mkdir_error", "model_error"} :
                 LET found == IF kind = "file" THEN <<trn.input_path.name>>
                              ELSE g1 \o g2 \o g3 \o g4 \o g5
                 IN  trn' =
                       IF found = <<>>
                       THEN [trn EXCEPT !.pc = "done", !.kind = kind,
                                        !.error = "no_audio_files", !.exit = 1]
                       ELSE IF env # "ok"
                       THEN [trn EXCEPT !.pc = "done", !.kind = kind,
                                        !.globbed_in_order = (found = SortFiles(found)),
                                        !.audio_files = SortFiles(found),
                                        !.error = env, !.exit = 1]
                       ELSE [trn EXCEPT !.pc = "loop", !.kind = kind,
                                        !.globbed_in_order = (found = SortFiles(found)),
                                        !.audio_files = SortFiles(found),
                                        !.successful_transcriptions = 0,
                                        !.idx = 1]
    /\ UNCHANGED <<prog, dir, out_file, conv, cut, pipe, seconds, rendered>>

\* One iteration of the loop, lines 77-122: the engine is called on the
\* file; the call or the write may raise, and an unsupported output format
\* skips the file.
TrnFile ==
    /\ trn.pc = "loop"
    /\ trn.idx <= Len(trn.audio_files)
    /\ LET audio_file == trn.audio_files[trn.idx]
           transcribe_options == TranscribeOptions(trn.language)
       IN  \E raised \in BOOLEAN :
             LET outcome == IF raised THEN "error"
                            ELSE IF trn.output_format \notin TranscriptFormats
                                 THEN "unsupported"
                                 ELSE "ok"
             IN  trn' = [trn EXCEPT
                           !.calls = Append(@, [audio |-> audio_file,
                                                options |-> transcribe_options,
                                                outcome |-> outcome]),
                           !.written = IF outcome = "ok"
                                       THEN @ \cup {TranscriptName(audio_file,
                                                                   trn.output_format)}
                                       ELSE @,
                           !.successful_transcriptions =
                               IF outcome = "ok" THEN @ + 1 ELSE @,
                           !.idx = @ + 1]
    /\ UNCHANGED <<prog, dir, out_file, conv, cut, pipe, seconds, rendered>>

\* After the loop: lines 124-129 and main's sys.exit.
TrnReturn ==
    /\ trn.pc = "loop"
    /\ trn.idx > Len(trn.audio_files)
    /\ trn' = [trn EXCEPT
                 !.pc = "done",
                 !.success = (trn.successful_transcriptions = Len(trn.audio_files)),
                 !.exit = IF trn.successful_transcriptions = Len(trn.audio_files)
                          THEN 0 ELSE 1]
    /\ UNCHANGED <<prog, dir, out_file, conv, cut, pipe, seconds, rendered>>

(***************************************************************************)
(* Converter: video_to_audio.py                                            *)
(***************************************************************************)
\* str.lower() on the characters an answer may hold
LowerChar(c) ==
    CASE c = "Y" -> "y"
      [] c = "N" -> "n"
      [] c = "C" -> "c"
      [] c = "M" -> "m"
      [] c = "P" -> "p"
      [] OTHER -> c

Lower(s) == [k \in 1..Len(s) |-> LowerChar(s[k])]

\* What the user may type at the overwrite prompt (without the newline).
Responses == { <<"y">>, <<"Y">>, <<"n">>, <<"N">>, <<>>, <<"y", "e", "s">> }

\* A faulty test: anything but "n" counts as a yes.
ConfirmedUnlessNo(response) == Lower(response) # <<"n">>

\* The test of line 39: the operation goes on only when this holds.
Confirmed(response) == Lower(response) = <<"y">>

ConvIdle ==
    [pc |-> "idle", input_file |-> InputPath, output_file |-> InputPath,
     audio_format |-> "mp3", prompted |-> FALSE, answered |-> FALSE,
     response |-> <<>>, ffmpeg_runs |-> 0, before |-> "absent", error |-> "",
     success |-> FALSE, exit |-> NoExit]

\* The process as main() enters convert_video_to_audio with the parsed
\* arguments: without -o the output is <stem>.<format>, -f defaults to mp3.
ConvProcess(input_file, output, format) ==
    LET audio_format == ArgOr(format, "mp3")
    IN  [ConvIdle EXCEPT
           !.pc = "start", !.input_file = input_file,
           !.audio_format = audio_format,
           !.output_file =
               ArgOr(output, PathOf("cwd", Stem(input_file.name) \o <<".">>
                                                   \o FormatChars(audio_format)))]

\* Lines 23-38: the input check, the output path, and whether the output
\* exists; when it does the process blocks in input().
ConvStart ==
    /\ conv.pc = "start"
    /\ \E input_exists \in BOOLEAN :
         conv' = IF ~input_exists
                 THEN [conv EXCEPT !.pc = "done", !.error = "input_missing",
                                   !.before = out_file, !.exit = 1]
                 ELSE IF out_file # "absent"
                 THEN [conv EXCEPT !.pc = "prompt", !.prompted = TRUE,
                                   !.before = out_file]
                 ELSE [conv EXCEPT !.pc = "ffmpeg", !.before = out_file]
    /\ UNCHANGED <<prog, dir, out_file, cut, trn, pipe, seconds, rendered>>

\* Lines 38-41: the answer to the prompt.  A closed stdin makes input()
\* raise EOFError, which nothing catches.
ConvAnswer ==
    /\ conv.pc = "prompt"
    /\ \/ \E response \in Responses :
            conv' = IF Confirmed(response)
                    THEN [conv EXCEPT !.pc = "ffmpeg", !.answered = TRUE,
                                      !.response = response]
                    ELSE [conv EXCEPT !.pc = "done", !.answered = TRUE,
                                      !.response = response,
                                      !.error = "cancelled", !.exit = 1]
       \/ conv' = [conv EXCEPT !.pc = "done", !.error = "eof", !.exit = 1]
    /\ UNCHANGED <<prog, dir, out_file, cut, trn, pipe, seconds, rendered>>

\* Lines 43-74: ffmpeg -y is run on the output path.  A run that fails may
\* have damaged the output; a missing ffmpeg never ran.
ConvFfmpeg ==
    /\ conv.pc = "ffmpeg"
    /\ \/ /\ conv' = [conv EXCEPT !.pc = "done", !.ffmpeg_runs = @ + 1,
                                  !.success = TRUE, !.exit = 0]
          /\ out_file' = "new"
       \/ /\ conv' = [conv EXCEPT !.pc = "done", !.ffmpeg_runs = @ + 1,
                                  !.error = "ffmpeg_error", !.exit = 1]
          /\ out_file' \in {out_file, "damaged"}
       \/ /\ conv' = [conv EXCEPT !.pc = "done", !.error = "ffmpeg_not_found",
                                  !.exit = 1]
          /\ out_file' = out_file
    /\ UNCHANGED <<prog, dir, cut, trn, pipe, seconds, rendered>>

(***************************************************************************)
(* Orchestrator: process_media.py                                          *)
(***************************************************************************)
NoPath == PathOf("", <<>>)

\* -l values the runs are given
Languages == {"auto", "en"}

\* audio_file, line 88
AudioFilePath(output_dir, base_name, audio_format) ==
    PathOf(output_dir, base_name \o <<".">> \o FormatChars(audio_format))

\* chunks_dir, line 109
ChunksDirPath(output_dir, base_name) ==
    PathOf(output_dir, base_name \o <<"_", "c", "h", "u", "n", "k", "s">>)

\* A faulty run_script: the exit code is not looked at.
run_script_unchecked(exit) == TRUE

\* run_script, lines 12-24: True unless the script exits nonzero
run_script(exit) == exit = 0

\* current_audio_file after step 1, lines 101 and 104
CurrentAudioFile(skip_video_conversion, audio_file, input_path) ==
    IF ~skip_video_conversion THEN audio_file ELSE input_path

\* A faulty transcription_input: the chunk directory even when step 2 is
\* skipped.
TranscriptionInputChunks(skip_cutting, chunks_dir, current_audio_file) == chunks_dir

\* transcription_input after step 2, lines 122 and 125
TranscriptionInput(skip_cutting, chunks_dir, current_audio_file) ==
    IF ~skip_cutting THEN chunks_dir ELSE current_audio_file

PipeIdle ==
    [pc |-> "idle", input_path |-> InputPath, language |-> "auto",
     skip_video_conversion |-> FALSE, skip_cutting |-> FALSE,
     skip_transcription |-> FALSE, duration |-> 10, format |-> "txt",
     audio_format |-> "mp3", output_dir_arg |-> {}, output_dir |-> "", base_name |-> <<>>,
     current_audio_file |-> NoPath, transcription_input |-> NoPath,
     invoked |-> <<>>, results |-> <<>>, stdout |-> <<>>, error |-> "",
     exit |-> NoExit]

\* The process after parse_args, lines 27-62 (-l defaults to "auto", -d to
\* 10, -f to "txt", --audio-format to "mp3").
PipeProcess(language, skip1, skip2, skip3, duration, output_dir) ==
    [PipeIdle EXCEPT
       !.pc = "start",
       !.language = ArgOr(language, "auto"),
       !.skip_video_conversion = skip1, !.skip_cutting = skip2,
       !.skip_transcription = skip3,
       !.duration = ArgOr(duration, 10),
       !.output_dir_arg = output_dir]

\* Lines 64-83: the input check and the paths.  mkdir of a given output
\* directory may raise, which nothing catches.
PipeSetup ==
    /\ pipe.pc = "start"
    /\ \E input_exists \in BOOLEAN, mkdir_ok \in BOOLEAN :
         pipe' = IF ~input_exists
                 THEN [pipe EXCEPT !.pc = "done", !.error = "input_missing",
                                   !.exit = 1]
                 ELSE IF pipe.output_dir_arg # {} /\ ~mkdir_ok
                 THEN [pipe EXCEPT !.pc = "done", !.error = "output_dir_error",
                                   !.exit = 1]
                 ELSE [pipe EXCEPT
                         !.pc = "step1",
                         !.base_name = Stem(pipe.input_path.name),
                         !.output_dir = ArgOr(pipe.output_dir_arg,
                                              pipe.input_path.parent)]
    /\ UNCHANGED <<prog, dir, out_file, conv, cut, trn, seconds, rendered>>

\* Step 1, lines 86-104, up to the blocking call of video_to_audio.py
PipeStep1 ==
    /\ pipe.pc = "step1"
    /\ LET audio_file == AudioFilePath(pipe.output_dir, pipe.base_name,
                                       pipe.audio_format)
       IN  IF ~pipe.skip_video_conversion
           THEN /\ pipe' = [pipe EXCEPT
                              !.pc = "wait1",
                              !.invoked = Append(@, [script |-> "video_to_audio.py",
                                                     input |-> pipe.input_path])]
                /\ conv' = ConvProcess(pipe.input_path, {audio_file}, {pipe.audio_format})
           ELSE /\ pipe' = [pipe EXCEPT
                              !.pc = "step2",
                              !.current_audio_file =
                                  CurrentAudioFile(TRUE, audio_file, pipe.input_path)]
                /\ conv' = conv
    /\ UNCHANGED <<prog, dir, out_file, cut, trn, seconds, rendered>>

\* video_to_audio.py has exited: run_script returns, lines 97-101
PipeReturn1 ==
    /\ pipe.pc = "wait1"
    /\ conv.pc = "done"
    /\ LET audio_file == AudioFilePath(pipe.output_dir, pipe.base_name,
                                       pipe.audio_format)
       IN  pipe' = IF ~run_script(conv.exit)
                   THEN [pipe EXCEPT !.pc = "done", !.results = Append(@, conv.exit),
                                     !.error = "conversion_failed", !.exit = 1]
                   ELSE [pipe EXCEPT
                           !.pc = "step2", !.results = Append(@, conv.exit),
                           !.current_audio_file =
                               CurrentAudioFile(FALSE, audio_file, pipe.input_path)]
    /\ conv' = ConvIdle
    /\ UNCHANGED <<prog, dir, out_file, cut, trn, seconds, rendered>>

\* Step 2, lines 107-125, up to the blocking call of cut_audio.py
PipeStep2 ==
    /\ pipe.pc = "step2"
    /\ LET chunks_dir == ChunksDirPath(pipe.output_dir, pipe.base_name)
       IN  IF ~pipe.skip_cutting
           THEN /\ pipe' = [pipe EXCEPT
                              !.pc = "wait2",
                              !.invoked = Append(@, [script |-> "cut_audio.py",
                                                     input |-> pipe.current_audio_file])]
                /\ cut' = CutProcess(pipe.current_audio_file, {pipe.duration},
                                     {pipe.audio_format})
           ELSE /\ pipe' = [pipe EXCEPT
                              !.pc = "step3",
                              !.transcription_input =
                                  TranscriptionInput(TRUE, chunks_dir,
                                                     pipe.current_audio_file)]
                /\ cut' = cut
    /\ UNCHANGED <<prog, dir, out_file, conv, trn, seconds, rendered>>

\* The "Saved: part_NNN.<fmt>" lines of cut_audio.py's output, which
\* run_script captured and prints (result.stdout, lines 18-19): the names of
\* the chunk files the run exported, in order.
SavedChunks(chunks) ==
    LET saved == SelectSeq(chunks, LAMBDA c : c.ok)
    IN  [k \in 1..Len(saved) |-> saved[k].name]

\* cut_audio.py has exited: run_script returns, lines 118-122
PipeReturn2 ==
    /\ pipe.pc = "wait2"
    /\ cut.pc = "done"
    /\ LET chunks_dir == ChunksDirPath(pipe.output_dir, pipe.base_name)
       IN  pipe' = IF ~run_script(cut.exit)
                   THEN [pipe EXCEPT !.pc = "done", !.results = Append(@, cut.exit),
                                     !.error = "cutting_failed", !.exit = 1]
                   ELSE [pipe EXCEPT
                           !.pc = "step3", !.results = Append(@, cut.exit),
                           !.stdout = SavedChunks(cut.chunks),
                           !.transcription_input =
                               TranscriptionInput(FALSE, chunks_dir,
                                                  pipe.current_audio_file)]
    /\ cut' = CutIdle
    /\ UNCHANGED <<prog, dir, out_file, conv, trn, seconds, rendered>>

\* Step 3, lines 128-146, up to the blocking call of transcribe_audio.py;
\* with the step skipped the pipeline is complete.
PipeStep3 ==
    /\ pipe.pc = "step3"
    /\ IF ~pipe.skip_transcription
       THEN /\ pipe' = [pipe EXCEPT
                          !.pc = "wait3",
                          !.invoked = Append(@, [script |-> "transcribe_audio.py",
                                                 input |-> pipe.transcription_input])]
            /\ trn' = TrnProcess(pipe.transcription_input, {pipe.language}, {pipe.format})
       ELSE /\ pipe' = [pipe EXCEPT !.pc = "done", !.exit = 0]
            /\ trn' = trn
    /\ UNCHANGED <<prog, dir, out_file, conv, cut, seconds, rendered>>

\* transcribe_audio.py has exited: run_script returns, lines 140-146
PipeReturn3 ==
    /\ pipe.pc = "wait3"
    /\ trn.pc = "done"
    /\ pipe' = IF ~run_script(trn.exit)
               THEN [pipe EXCEPT !.pc = "done", !.results = Append(@, trn.exit),
                                 !.error = "transcription_failed", !.exit = 1]
               ELSE [pipe EXCEPT !.pc = "done", !.results = Append(@, trn.exit),
                                 !.exit = 0]
    /\ trn' = TrnIdle
    /\ UNCHANGED <<prog, dir, out_file, conv, cut, seconds, rendered>>

(***************************************************************************)
(* The user launches one of the four scripts, on a disk that earlier runs  *)
(* may have written to.                                                    *)
(***************************************************************************)
\* video_to_audio.py <input> [-o <output>]
LaunchConvert ==
    /\ prog = "none"
    /\ prog' = "video_to_audio.py"
    /\ \E existing \in {"absent", "old"},
          output \in Optional({PathOf("out", <<"v", ".", "m", "p", "3">>)}) :
         /\ out_file' = existing
         /\ conv' = ConvProcess(InputPath, output, {})
    /\ UNCHANGED <<dir, cut, trn, pipe, seconds, rendered>>

\* cut_audio.py <input> [-d <minutes>] [-f <format>]
LaunchCut ==
    /\ prog = "none"
    /\ prog' = "cut_audio.py"
    /\ \E d \in Optional(1..MaxT), f \in Optional(AudioFormats),
          files \in InitialDirs(StaleNames) :
         /\ dir' = files
         /\ cut' = CutProcess(InputPath, d, f)
    /\ UNCHANGED <<out_file, conv, trn, pipe, seconds, rendered>>

\* transcribe_audio.py <file or directory> [-l <language>] [-f <format>];
\* the format "xml" is one only a direct caller of transcribe_audio_files
\* can give (main's choices are txt, json, srt, vtt).
LaunchTranscribe ==
    /\ prog = "none"
    /\ prog' = "transcribe_audio.py"
    /\ \E l \in Optional(Languages), f \in Optional({"srt", "xml"}),
          input \in {PathOf("out", ChunksDirName), PathOf("out", <<"b", ".", "m", "p", "3">>)},
          files \in InitialDirs(OtherNames \cup StaleNames) :
         /\ dir' = files
         /\ trn' = TrnProcess(input, l, f)
    /\ UNCHANGED <<out_file, conv, cut, pipe, seconds, rendered>>

\* process_media.py <input> [-l <language>] [--skip-...] [-d <minutes>]
\* [-o <output dir>]
LaunchPipeline ==
    /\ prog = "none"
    /\ prog' = "process_media.py"
    /\ \E l \in Optional(Languages), skip1 \in BOOLEAN, skip2 \in BOOLEAN,
          skip3 \in BOOLEAN, d \in Optional(1..MaxT), o \in Optional({"out"}),
          existing \in {"absent", "old"}, files \in InitialDirs(StaleNames) :
         /\ dir' = files
         /\ out_file' = existing
         /\ pipe' = PipeProcess(l, skip1, skip2, skip3, d, o)
    /\ UNCHANGED <<conv, cut, trn, seconds, rendered>>

(***************************************************************************)
(* Subtitle time formatters: format_time_srt, format_time_vtt              *)
(*                                                                         *)
(* A segment time is a float of seconds.  The model holds it as its whole  *)
(* seconds, its fraction in units of 1/10 ms, and the side on which the    *)
(* float lies of a decimal that ends in a 5 at that digit (the float       *)
(* nearest such a decimal is a little above or below it, or an exact tie). *)
(***************************************************************************)
UnitsPerSecond == 10 * 1000

\* The segment times formatted: whole hours, minutes and seconds around the
\* carries, with fractions of a second (in units) around the rounding points.
TimeSet ==
    [ whole : { (h * 3600) + (m * 60) + sec :
                  h \in {0, 1, MaxHours}, m \in {0, 2, 59}, sec \in {0, 5, 59} },
      frac : {0, 4, 5, 5000, 9994, 9995, 9999},
      tie_up : BOOLEAN ]

\* "%.3f" of x seconds (x in units of 1/10 ms): the milliseconds after
\* rounding to three decimals.
RoundMillis(x, tie_up) ==
    LET ms == x \div 10
        d == x % 10
    IN  IF d > 5 \/ (d = 5 /\ tie_up) THEN ms + 1 ELSE ms

\* f"{seconds:06.3f}": three decimals, zero-filled to a width of 6
FormatSeconds(x, tie_up) ==
    LET ms == RoundMillis(x, tie_up)
    IN  ZeroPad(Digits(ms \div 1000) \o <<".">> \o ZeroPad(Digits(ms % 1000), 3), 6)

\* str.replace(old, new) for one-character old and new
Replace(s, old, new) == [k \in 1..Len(s) |-> IF s[k] = old THEN new ELSE s[k]]

\* format_time_vtt, lines 162-167, of the time t.whole + t.frac
format_time_vtt(t) ==
    LET hours == t.whole \div 3600
        minutes == (t.whole % 3600) \div 60
        secs == (t.whole % 60) * UnitsPerSecond + t.frac
    IN  ZeroPad(Digits(hours), 2) \o <<":">> \o ZeroPad(Digits(minutes), 2)
          \o <<":">> \o FormatSeconds(secs, t.tie_up)

\* format_time_srt, lines 155-160, of the time t.whole + t.frac
format_time_srt(t) ==
    LET hours == t.whole \div 3600
        minutes == (t.whole % 3600) \div 60
        secs == (t.whole % 60) * UnitsPerSecond + t.frac
    IN  Replace(ZeroPad(Digits(hours), 2) \o <<":">> \o ZeroPad(Digits(minutes), 2)
                  \o <<":">> \o FormatSeconds(secs, t.tie_up), ".", ",")

NotRendered == [srt |-> <<>>, vtt |-> <<>>]

\* generate_srt formats a segment time, lines 135-136
FormatSrt ==
    /\ seconds.whole >= 0
    /\ rendered.srt = <<>>
    /\ rendered' = [rendered EXCEPT !.srt = format_time_srt(seconds)]
    /\ UNCHANGED <<prog, dir, out_file, conv, cut, trn, pipe, seconds>>

\* generate_vtt formats a segment time, lines 147-148
FormatVtt ==
    /\ seconds.whole >= 0
    /\ rendered.vtt = <<>>
    /\ rendered' = [rendered EXCEPT !.vtt = format_time_vtt(seconds)]
    /\ UNCHANGED <<prog, dir, out_file, conv, cut, trn, pipe, seconds>>

InitTime ==
    /\ prog = "none"
    /\ dir = {}
    /\ out_file = "absent"
    /\ conv = ConvIdle
    /\ cut = CutIdle
    /\ trn = TrnIdle
    /\ pipe = PipeIdle
    /\ seconds \in TimeSet
    /\ rendered = NotRendered

NextTime == FormatSrt \/ FormatVtt

SpecTime == InitTime /\ [][NextTime]_vars

Init ==
    /\ prog = "none"
    /\ dir = {}
    /\ out_file = "absent"
    /\ conv = ConvIdle
    /\ cut = CutIdle
    /\ trn = TrnIdle
    /\ pipe = PipeIdle
    /\ seconds = [whole |-> -1, frac |-> 0, tie_up |-> FALSE]
    /\ rendered = NotRendered

Next ==
    \/ LaunchConvert \/ LaunchCut \/ LaunchTranscribe \/ LaunchPipeline
    \/ ConvStart \/ ConvAnswer \/ ConvFfmpeg
    \/ CutStart \/ CutChunk \/ CutReturn
    \/ TrnStart \/ TrnFile \/ TrnReturn
    \/ PipeSetup \/ PipeStep1 \/ PipeReturn1 \/ PipeStep2 \/ PipeReturn2
    \/ PipeStep3 \/ PipeReturn3

Spec == Init /\ [][Next]_vars

(***************************************************************************)
(* Properties.                                                             *)
(***************************************************************************)
\* The Chunker has loaded the audio (it is in or past its loop).
CutLoaded == cut.pc \in {"loop", "done"} /\ cut.error = ""

\* The Transcriber has resolved its files and started its batch.
TrnBatch == trn.pc \in {"loop", "done"} /\ trn.error = ""

\* C1: for a total duration D >= 0 ms and a chunk duration of T >= 1
\* minutes (T_ms = T * 60000) the Chunker attempts chunks 1, 2, ... in this
\* order, chunk k spanning (k-1)*T_ms .. min(k*T_ms, D) with start < end and
\* each chunk starting where the one before ended, the first at 0; when it
\* is done it has attempted exactly N = ceil(D / T_ms) chunks (the least N
\* with N * T_ms >= D) and the last one ends at D.
C1_ChunksPartition ==
    (CutLoaded /\ cut.chunk_duration >= 1) =>
        LET T_ms == cut.chunk_duration * 60000
            D == cut.total_duration_ms
            ch == cut.chunks
            N == Len(ch)
        IN  /\ \A k \in 1..N :
                 /\ ch[k].index = k
                 /\ ch[k].start = (k - 1) * T_ms
                 /\ ch[k].end = (IF k * T_ms <= D THEN k * T_ms ELSE D)
                 /\ ch[k].start < ch[k].end
                 /\ k > 1 => ch[k - 1].end = ch[k].start
            /\ N >= 1 => ch[1].start = 0
            /\ cut.pc = "done" =>
                 /\ N * T_ms >= D
                 /\ N >= 1 => (N - 1) * T_ms < D
                 /\ N >= 1 => ch[N].end = D
                 /\ N = 0 => D = 0

\* C1 witness: a finished run of three chunks whose last chunk is shorter
\* than the chunk duration.
C1_Witness ==
    /\ CutLoaded
    /\ cut.pc = "done"
    /\ Len(cut.chunks) = 3
    /\ cut.total_duration_ms % cut.chunk_duration_ms # 0
    /\ cut.chunks[3].end - cut.chunks[3].start < cut.chunk_duration_ms

\* C2: a loaded audio of total duration 0 gives zero chunks and the Chunker
\* reports failure (returns False, exit code 1).
C2_ZeroDurationFails ==
    (CutLoaded /\ cut.pc = "done" /\ cut.total_duration_ms = 0) =>
        /\ Len(cut.chunks) = 0
        /\ cut.success = FALSE
        /\ cut.exit = 1

\* Number of entries of a sequence of records whose field says "succeeded".
RECURSIVE CountOk(_)
CountOk(q) ==
    IF q = <<>> THEN 0
    ELSE CountOk(SubSeq(q, 1, Len(q) - 1)) + (IF q[Len(q)].ok THEN 1 ELSE 0)

RECURSIVE CountOutcomeOk(_)
CountOutcomeOk(q) ==
    IF q = <<>> THEN 0
    ELSE CountOutcomeOk(SubSeq(q, 1, Len(q) - 1))
           + (IF q[Len(q)].outcome = "ok" THEN 1 ELSE 0)

\* C3: in the Chunker's and the Transcriber's batch a failed item does not
\* abort the batch: item k is the k-th attempt whatever the earlier outcomes,
\* at the end every one of the N items has been attempted exactly once, the
\* outputs of the items that succeeded are on disk, and the stage reports
\* success (exit 0) exactly when the number of items that succeeded is N.
C3_PartialFailure ==
    /\ CutLoaded =>
         /\ Len(cut.chunks) = cut.i
         /\ Len(cut.chunks) <= cut.num_chunks
         /\ \A k \in 1..Len(cut.chunks) :
              /\ cut.chunks[k].index = k
              /\ cut.chunks[k].ok => cut.chunks[k].name \in dir
         /\ cut.pc = "done" =>
              /\ Len(cut.chunks) = cut.num_chunks
              /\ cut.success <=> (CountOk(cut.chunks) = cut.num_chunks)
              /\ cut.exit = (IF cut.success THEN 0 ELSE 1)
    /\ TrnBatch =>
         /\ Len(trn.calls) = trn.idx - 1
         /\ Len(trn.calls) <= Len(trn.audio_files)
         /\ \A k \in 1..Len(trn.calls) :
              /\ trn.calls[k].audio = trn.audio_files[k]
              /\ trn.calls[k].outcome = "ok" =>
                   TranscriptName(trn.calls[k].audio, trn.output_format) \in trn.written
         /\ \A j, k \in 1..Len(trn.audio_files) :
              trn.audio_files[j] = trn.audio_files[k] => j = k
         /\ trn.pc = "done" =>
              /\ Len(trn.calls) = Len(trn.audio_files)
              /\ trn.success <=> (CountOutcomeOk(trn.calls) = Len(trn.audio_files))
              /\ trn.exit = (IF trn.success THEN 0 ELSE 1)

\* C3 witness: a finished Chunker run in which a chunk failed, a later
\* chunk was still written, and the run reports failure.
C3_Witness ==
    /\ CutLoaded
    /\ cut.pc = "done"
    /\ \E j, k \in 1..Len(cut.chunks) :
         j < k /\ ~cut.chunks[j].ok /\ cut.chunks[k].ok /\ cut.chunks[k].name \in dir
    /\ cut.exit = 1

\* The stages in their fixed order, and the flag that skips each.
StageRank(script) ==
    CASE script = "video_to_audio.py" -> 1
      [] script = "cut_audio.py" -> 2
      [] script = "transcribe_audio.py" -> 3

Skipped(script) ==
    CASE script = "video_to_audio.py" -> pipe.skip_video_conversion
      [] script = "cut_audio.py" -> pipe.skip_cutting
      [] script = "transcribe_audio.py" -> pipe.skip_transcription

Stages == {"video_to_audio.py", "cut_audio.py", "transcribe_audio.py"}

PipeRunning == prog = "process_media.py" /\ pipe.pc # "idle"

\* The run ended before its first stage: the input is missing, or the
\* output directory could not be made.
SetupErrors == {"input_missing", "output_dir_error"}

\* C4: whatever the skip flags and the stages' exit codes, the Orchestrator
\* invokes only stages that are not skipped, in the order Convert, Chunk,
\* Transcribe, each at most once; a stage is invoked only when every stage
\* invoked before it exited 0, and after a nonzero exit the process ends
\* with exit code 1; a run that got to its stages ends with exit code 0
\* exactly when every stage that is not skipped was invoked and exited 0.
C4_FailFast ==
    PipeRunning =>
        LET inv == pipe.invoked
            res == pipe.results
        IN  /\ Len(res) <= Len(inv)
            /\ Len(inv) <= Len(res) + 1
            /\ \A k \in 1..Len(inv) : inv[k].script \in Stages /\ ~Skipped(inv[k].script)
            /\ \A j, k \in 1..Len(inv) :
                 j < k => StageRank(inv[j].script) < StageRank(inv[k].script)
            /\ \A k \in 1..Len(res) : k < Len(inv) => res[k] = 0
            /\ (\E k \in 1..Len(res) : res[k] # 0) => (pipe.pc = "done" /\ pipe.exit = 1)
            /\ pipe.pc = "done" =>
                 /\ pipe.exit \in {0, 1}
                 /\ Len(res) = Len(inv)
                 /\ pipe.error \notin SetupErrors =>
                      (pipe.exit = 0 <=>
                         \A st \in Stages :
                            ~Skipped(st) =>
                               \E k \in 1..Len(inv) : inv[k].script = st /\ res[k] = 0)
                 /\ pipe.error \in SetupErrors => (inv = <<>> /\ pipe.exit = 1)

\* C4 witness: the run ended with exit code 1 after Convert exited 0 and
\* Chunk exited 1; Transcribe, which was not skipped, was never invoked.
C4_Witness ==
    /\ PipeRunning
    /\ pipe.pc = "done"
    /\ pipe.exit = 1
    /\ ~pipe.skip_transcription
    /\ Len(pipe.invoked) = 2
    /\ pipe.invoked[2].script = "cut_audio.py"
    /\ pipe.results = <<0, 1>>

\* C5: every stage the Orchestrator invokes is given the output location
\* of the most recent earlier stage that was not skipped, and the original
\* input when every earlier stage was skipped: Convert reads the input;
\* Chunk reads <output_dir>/<base>.<audio_format> when Convert ran and the
\* input otherwise; Transcribe reads <output_dir>/<base>_chunks when Chunk
\* ran and otherwise what Chunk would have read.  The invoked script runs
\* on that location.
C5_StageInputs ==
    PipeRunning =>
        LET output_dir == IF pipe.output_dir_arg = {} THEN "work" ELSE "out"
            audio == [parent |-> output_dir, name |-> <<"v", ".", "m", "p", "3">>]
            chunks == [parent |-> output_dir,
                       name |-> <<"v", "_", "c", "h", "u", "n", "k", "s">>]
            original == [parent |-> "work", name |-> <<"v", ".", "m", "p", "4">>]
            chunk_reads == IF pipe.skip_video_conversion THEN original ELSE audio
            transcribe_reads == IF pipe.skip_cutting THEN chunk_reads ELSE chunks
        IN  /\ \A k \in 1..Len(pipe.invoked) :
                 pipe.invoked[k].input =
                     CASE pipe.invoked[k].script = "video_to_audio.py" -> original
                       [] pipe.invoked[k].script = "cut_audio.py" -> chunk_reads
                       [] pipe.invoked[k].script = "transcribe_audio.py" -> transcribe_reads
            /\ conv.pc # "idle" => conv.input_file = original /\ conv.output_file = audio
            /\ cut.pc # "idle" => cut.input_file = chunk_reads
            /\ trn.pc # "idle" => trn.input_path = transcribe_reads

\* C5 witness: Convert ran, Chunk was skipped, and Transcribe was invoked
\* on the Converter's output out/v.mp3.
C5_Witness ==
    /\ PipeRunning
    /\ ~pipe.skip_video_conversion
    /\ pipe.skip_cutting
    /\ Len(pipe.invoked) = 2
    /\ pipe.invoked[2].script = "transcribe_audio.py"
    /\ pipe.invoked[2].input = [parent |-> "out", name |-> <<"v", ".", "m", "p", "3">>]
    /\ trn.pc = "loop"

ConvRunning == conv.pc \in {"prompt", "ffmpeg", "done"}

\* C6: the Converter runs the conversion tool on an output path that
\* already exists only after the user answered the prompt with "y" or "Y";
\* with any other answer it ends as a cancellation (False, exit 1) without
\* having run the tool and with the existing file unchanged; when the
\* output does not exist nothing is asked; the output file changes only by
\* a run of the tool.
C6_OverwriteConfirmed ==
    ConvRunning =>
        /\ (conv.answered /\ conv.response \notin {<<"y">>, <<"Y">>}) =>
              /\ conv.pc = "done"
              /\ conv.error = "cancelled"
              /\ conv.success = FALSE /\ conv.exit = 1
              /\ conv.ffmpeg_runs = 0
              /\ out_file = conv.before
        /\ (conv.ffmpeg_runs > 0 /\ conv.before # "absent") =>
              (conv.prompted /\ conv.answered /\ conv.response \in {<<"y">>, <<"Y">>})
        /\ (conv.pc = "ffmpeg" /\ conv.before # "absent") =>
              (conv.prompted /\ conv.answered /\ conv.response \in {<<"y">>, <<"Y">>})
        /\ conv.before = "absent" => (~conv.prompted /\ ~conv.answered)
        /\ conv.prompted <=> conv.before # "absent" /\ conv.error # "input_missing"
        /\ out_file # conv.before => conv.ffmpeg_runs > 0

\* C6 witness: the output existed, the user answered "yes", and the run
\* ended cancelled with the old file in place.
C6_Witness ==
    /\ conv.pc = "done"
    /\ conv.before = "old"
    /\ conv.answered
    /\ conv.response = <<"y", "e", "s">>
    /\ conv.error = "cancelled"
    /\ out_file = "old"

\* The elements of a sequence.
Range(q) == {q[k] : k \in 1..Len(q)}

\* C7: given a directory, the Transcriber processes exactly the files of
\* the directory whose extension is mp3, wav, m4a, flac or aac whatever the
\* case of its letters (C.MP3 is one), each once.
C7_CaseInsensitiveExtensions ==
    (trn.pc \in {"loop", "done"} /\ trn.kind = "dir") =>
        /\ Range(trn.audio_files) =
             {n \in dir : \E e \in 1..Len(audio_extensions) :
                 EndsWith(Lower(n), <<".">> \o FormatChars(audio_extensions[e]))}
        /\ \A j, k \in 1..Len(trn.audio_files) :
             trn.audio_files[j] = trn.audio_files[k] => j = k

\* Lexicographic order of two texts by code point, stated without
\* recursion: at the first position where they differ a has the smaller
\* character, or a is a proper prefix of b.
LexLess(a, b) ==
    \/ /\ Len(a) < Len(b)
       /\ \A k \in 1..Len(a) : a[k] = b[k]
    \/ \E k \in 1..Min(Len(a), Len(b)) :
         /\ \A j \in 1..(k - 1) : a[j] = b[j]
         /\ CodePoint[a[k]] < CodePoint[b[k]]

\* C8: in directory mode the engine is called on the resolved files in
\* ascending lexicographic order of their paths, in whatever order the
\* globs returned them: the k-th call is on the file that has exactly k-1
\* resolved files before it in that order.
C8_LexicographicOrder ==
    (TrnBatch /\ trn.kind = "dir") =>
        /\ \A j, k \in 1..Len(trn.calls) :
             j < k => LexLess(trn.calls[j].audio, trn.calls[k].audio)
        /\ \A k \in 1..Len(trn.calls) :
             Cardinality({n \in Range(trn.audio_files) : LexLess(n, trn.calls[k].audio)})
               = k - 1

\* C8 witness: the globs returned at least two files out of order and the
\* engine has been called on all of them.
C8_Witness ==
    /\ TrnBatch
    /\ trn.kind = "dir"
    /\ ~trn.globbed_in_order
    /\ Len(trn.audio_files) >= 2
    /\ Len(trn.calls) = Len(trn.audio_files)

\* C9: no call of the engine carries the language "auto": with the
\* language "auto" the call has no language parameter, with any other
\* language it has exactly that one; the Transcriber the Orchestrator runs
\* has the Orchestrator's language, "auto" when none was given.
C9_AutoNeverPassed ==
    /\ \A k \in 1..Len(trn.calls) :
         /\ <<"language", "auto">> \notin trn.calls[k].options
         /\ trn.language = "auto" => trn.calls[k].options = {}
         /\ trn.language # "auto" =>
              trn.calls[k].options = {<<"language", trn.language>>}
    /\ (PipeRunning /\ trn.pc # "idle") => trn.language = pipe.language

\* C9 witness: the Orchestrator runs with the language "auto" and its
\* Transcriber has called the engine without a language parameter.
C9_Witness ==
    /\ PipeRunning
    /\ pipe.language = "auto"
    /\ Len(trn.calls) >= 1
    /\ trn.calls[1].options = {}

\* The number a text of decimal digits writes.
DigitValue(c) == CHOOSE d \in 0..9 : DigitChar[d + 1] = c

RECURSIVE Number(_)
Number(s) ==
    IF s = <<>> THEN 0
    ELSE 10 * Number(SubSeq(s, 1, Len(s) - 1)) + DigitValue(s[Len(s)])

IsDigits(s) == \A k \in 1..Len(s) : \E d \in 1..10 : DigitChar[d] = s[k]

\* A rendered time has the shape H..HH:MM:SS<sep>mmm for the time t: HH is
\* floor(t / 3600) in at least two digits, MM is floor((t mod 3600) / 60),
\* and SS<sep>mmm is t mod 60 to three decimals.
WellFormedTime(txt, sep, t) ==
    LET n == Len(txt)
        hh == SubSeq(txt, 1, n - 10)
        mm == SubSeq(txt, n - 8, n - 7)
        ss == SubSeq(txt, n - 5, n - 4)
        mmm == SubSeq(txt, n - 2, n)
        millis == Number(ss) * 1000 + Number(mmm)
        remainder == (t.whole % 60) * UnitsPerSecond + t.frac
    IN  /\ n >= 12
        /\ txt[n - 9] = ":" /\ txt[n - 6] = ":" /\ txt[n - 3] = sep
        /\ IsDigits(hh) /\ IsDigits(mm) /\ IsDigits(ss) /\ IsDigits(mmm)
        /\ Number(hh) = t.whole \div 3600
        /\ Len(hh) > 2 => hh[1] # "0"
        /\ Number(mm) = (t.whole % 3600) \div 60
        /\ Number(mm) <= 59
        /\ millis * 10 - remainder <= 5
        /\ remainder - millis * 10 <= 5

\* The seconds field of a rendered time is within 00.000 .. 59.999.
SecondsInRange(txt) ==
    LET n == Len(txt)
    IN  Number(SubSeq(txt, n - 5, n - 4)) * 1000 + Number(SubSeq(txt, n - 2, n)) <= 59999

\* C10: for every segment time t >= 0, format_time_srt and format_time_vtt
\* render t as HH:MM:SS,mmm and HH:MM:SS.mmm, HH = floor(t / 3600) in at
\* least 2 digits, MM = floor((t mod 3600) / 60) in 00..59, the seconds the
\* remainder t mod 60 in 2 integer and 3 decimal digits and always within
\* 00.000..59.999; the two differ only in the separator; t = 125.5 renders
\* as 00:02:05,500 and 00:02:05.500.
C10_TimeFormat ==
    /\ rendered.srt # <<>> =>
         /\ WellFormedTime(rendered.srt, ",", seconds)
         /\ SecondsInRange(rendered.srt)
    /\ rendered.vtt # <<>> =>
         /\ WellFormedTime(rendered.vtt, ".", seconds)
         /\ SecondsInRange(rendered.vtt)
    /\ (rendered.srt # <<>> /\ rendered.vtt # <<>>) =>
         Replace(rendered.srt, ",", ".") = rendered.vtt
    /\ (seconds.whole = 125 /\ seconds.frac = 5000) =>
         /\ rendered.srt \in {<<>>, <<"0", "0", ":", "0", "2", ":", "0", "5", ",", "5", "0", "0">>}
         /\ rendered.vtt \in {<<>>, <<"0", "0", ":", "0", "2", ":", "0", "5", ".", "5", "0", "0">>}

\* C11: whatever part files earlier runs left in <base>_chunks, when the
\* Chunk stage of the current pipeline run succeeds with N chunks, the
\* files the following Transcribe stage processes are exactly part_001 ..
\* part_N, the ones the current run wrote: no chunk file of an earlier run
\* is transcribed.
C11_OnlyCurrentChunks ==
    (/\ PipeRunning
     /\ ~pipe.skip_cutting
     /\ pipe.pc = "wait3"
     /\ trn.pc \in {"loop", "done"}) =>
        LET N == Len(pipe.stdout)
        IN  /\ Range(pipe.stdout) = {ChunkFilename(n, pipe.audio_format) : n \in 1..N}
            /\ Range(trn.audio_files) = Range(pipe.stdout)

=============================================================================
